---- MODULE Spec2Model ----
(***************************************************************************)
(* Model of rootpy's canvas/pad layer (rootpy/plotting/canvas.py) and file *)
(* layer (rootpy/io.py).  The native toolkit (ROOT) is modelled only as    *)
(* far as the python code calls it: the current-pad pointer gPad, the      *)
(* mother/canvas/primitives relations of pads, the canvas client size and  *)
(* the file table.                                                         *)
(***************************************************************************)
EXTENDS Integers, Sequences, FiniteSets, TLC

VARIABLES
    gPad,       \* ROOT.gPad: the current surface, or Null
    mother,     \* pad -> its native fMother
    canvasOf,   \* pad -> its native fCanvas
    drawn,      \* pad -> TRUE when it is in its mother's list of primitives
    wrapped,    \* surface -> TRUE when its python class is the rootpy one
    registry,   \* keepalive registry: set of <<owner, owned>>
    prev,       \* surface -> its _prev_pad attribute
    stack,      \* open "with surface:" scopes, innermost last; each frame
                \* records (history) the surface current at its entry and
                \* whether its surface was entered again inside it
    exc,        \* TRUE while an exception propagates out of a with body
    alive,      \* surfaces that exist
    refs,       \* surfaces the caller holds a python reference to
    cdPairs,    \* history: <<S, p>> for every S.cd(n) that returned p # S
    last,       \* history: the last call and what it returned
    wndc,       \* pad -> normalized width (GetWNDC), in units of 1/Den
    hndc,       \* pad -> normalized height (GetHNDC), in units of 1/Den
    Ww,         \* canvas -> paintable width in pixels (GetWw)
    Wh,         \* canvas -> paintable height in pixels (GetWh)
    wk,         \* the width_pixels / height_pixels walk in progress
    batch,      \* canvas -> IsBatch()
    sid,        \* canvas -> its size_includes_decorations attribute
    deco,       \* window decorations: <<width, height>> the window manager adds
    files,      \* paths at which a container exists
    handles,    \* container handles the caller holds
    io,         \* history: the last file call and its outcome
    hists,      \* histogram skeletons constructed by axes(), oldest first
    axDrawn,    \* skeletons whose axis frame was drawn, oldest first
    ax          \* history: the last axes() call and its outcome

surfVars == <<gPad, mother, canvasOf, drawn, wrapped, registry, prev, stack,
              exc, alive, refs, cdPairs, last>>
geomVars == <<wndc, hndc, wk>>
canvVars == <<Ww, Wh, batch, sid, deco>>
ioVars == <<files, handles, io>>
axVars == <<hists, axDrawn, ax>>
vars == <<surfVars, geomVars, canvVars, ioVars, axVars>>

Null == "null"

\* c0 is the canvas the toolkit makes by itself when something is drawn
\* while no surface is current; c1 is a rootpy Canvas.
DefCanvas == "c0"
Canvases == {"c0", "c1"}
Pads == {"p1", "p2", "p3"}
Surf == Canvases \cup Pads

\* Largest sub-pad number passed to cd(n).
MaxSub == 3
\* Normalized sizes are multiples of 1/Den.
Den == 4
\* Deepest nesting of with-scopes explored.
MaxDepth == 3

PadNumber(p) == IF p = "p1" THEN 1 ELSE IF p = "p2" THEN 2 ELSE 3

NoCall == [op |-> "none", self |-> Null, arg |-> 0, ret |-> Null,
           entry |-> Null, exc |-> FALSE, reentered |-> FALSE]

----------------------------------------------------------------------------
(* Native toolkit, as called from canvas.py *)

GetCanvas(s) == IF s \in Canvases THEN s ELSE canvasOf[s]

GetMother(s) == IF s \in Canvases THEN s ELSE mother[s]

Primitives(s) == {p \in Pads : drawn[p] /\ mother[p] = s /\ p \in alive}

\* TPad::cd(n): n = 0 makes s current and returns it; otherwise the sub-pad
\* numbered n in s's primitives is made current and returned; null (and no
\* change) when there is none.
NativeCd(s, n, gp) ==
    IF n = 0 THEN [ret |-> s, gPad |-> s]
    ELSE IF \E p \in Primitives(s) : PadNumber(p) = n
         THEN LET p == CHOOSE q \in Primitives(s) : PadNumber(q) = n
              IN  [ret |-> p, gPad |-> p]
         ELSE [ret |-> Null, gPad |-> gp]

----------------------------------------------------------------------------
(* rootpy helpers that canvas.py imports *)

\* asrootpy: the same object, its class switched to the rootpy one when a
\* mapping exists (every surface class has one); null stays null.
AsRootpyWrapped(w, x) == IF x = Null THEN w ELSE [w EXCEPT ![x] = TRUE]

\* keepalive(owner, owned)
Keepalive(reg, owner, owned) == reg \cup {<<owner, owned>>}

----------------------------------------------------------------------------
(* _PadBase.cd *)

\* Variant of the guard without the identity test
KeepaliveGuardAlways(pad, self) == pad # Null

\* Variant of the guard that never registers
KeepaliveGuardNever(pad, self) == FALSE

\* "if pad and pad is not self"
KeepaliveGuard(pad, self) == pad # Null /\ pad # self

\* The state after self.cd(n), self a rootpy surface.
PadBaseCd(self, n, gp, reg, w) ==
    LET nat == NativeCd(self, n, gp)
        pad == nat.ret
    IN  [ret |-> pad, gPad |-> nat.gPad,
         wrapped |-> AsRootpyWrapped(w, pad),
         registry |-> IF KeepaliveGuard(pad, self)
                      THEN Keepalive(reg, self, pad) ELSE reg]

\* x.cd(n) as python dispatches it: _PadBase.cd on a rootpy surface, the
\* native cd on a raw one.
DispatchCd(x, n, gp, reg, w) ==
    IF w[x] THEN PadBaseCd(x, n, gp, reg, w)
    ELSE LET nat == NativeCd(x, n, gp)
         IN  [ret |-> nat.ret, gPad |-> nat.gPad,
              wrapped |-> w, registry |-> reg]

CdCall(self, n) ==
    /\ ~exc
    /\ self \in refs /\ wrapped[self]
    /\ LET r == PadBaseCd(self, n, gPad, registry, wrapped)
       IN  /\ gPad' = r.gPad
           /\ wrapped' = r.wrapped
           /\ registry' = r.registry
           /\ refs' = IF r.ret = Null THEN refs ELSE refs \cup {r.ret}
           /\ cdPairs' = IF r.ret # Null /\ r.ret # self
                         THEN cdPairs \cup {<<self, r.ret>>} ELSE cdPairs
           /\ last' = [NoCall EXCEPT !.op = "cd", !.self = self, !.arg = n,
                                     !.ret = r.ret]
    /\ UNCHANGED <<geomVars, canvVars, ioVars, axVars>>
    /\ UNCHANGED <<mother, canvasOf, drawn, prev, stack, exc, alive>>

----------------------------------------------------------------------------
(* Pad.Draw *)

\* TPad::Draw: with no current surface the toolkit first makes a default
\* canvas (one canvas, DefCanvas, stands for every such canvas); a pad drawn
\* while another surface is current leaves its old mother's primitives and
\* becomes a primitive of the current surface, taking that surface's canvas.
\* Returns nothing (python None).
NativeDraw(p, gp, mo, cv, dr, al) ==
    LET cur == IF gp = Null THEN DefCanvas ELSE gp
    IN  [ret |-> "None", gPad |-> cur, alive |-> al \cup {cur},
         mother |-> IF cur # p THEN [mo EXCEPT ![p] = cur] ELSE mo,
         canvasOf |-> IF cur # p
                      THEN [cv EXCEPT ![p] = IF cur \in Canvases THEN cur
                                             ELSE cv[cur]]
                      ELSE cv,
         drawn |-> IF cur # p THEN [dr EXCEPT ![p] = TRUE] ELSE dr]

\* Variant: the mother, not the canvas, as owner
DrawOwnerMother(p, cv, mo) == mo[p]

\* "canvas = self.GetCanvas()", read after the native draw
DrawOwner(p, cv, mo) == cv[p]

\* Pad.Draw on a rootpy Pad; the native Draw alone on a raw TPad.  With
\* ok = FALSE the native draw raises before it changes anything.
DrawCall(p, ok) ==
    /\ ~exc
    /\ p \in Pads /\ p \in refs
    /\ IF ok
       THEN LET r == NativeDraw(p, gPad, mother, canvasOf, drawn, alive)
            IN  /\ gPad' = r.gPad
                /\ alive' = r.alive
                /\ mother' = r.mother
                /\ canvasOf' = r.canvasOf
                /\ drawn' = r.drawn
                /\ registry' = IF wrapped[p]
                               THEN Keepalive(registry,
                                        DrawOwner(p, r.canvasOf, r.mother), p)
                               ELSE registry
                /\ last' = [NoCall EXCEPT !.op = "draw", !.self = p,
                                          !.ret = r.ret]
                /\ exc' = exc
       ELSE /\ last' = [NoCall EXCEPT !.op = "draw_raised", !.self = p]
            /\ exc' = (stack # <<>>)
            /\ UNCHANGED <<gPad, alive, mother, canvasOf, drawn, registry>>
    /\ UNCHANGED <<geomVars, canvVars, ioVars, axVars>>
    /\ UNCHANGED <<wrapped, prev, stack, refs, cdPairs>>

----------------------------------------------------------------------------
(* _PadBase.__enter__ / __exit__ *)

\* "with invisible_canvas(): pass": a canvas is made current and closed,
\* which leaves no surface current.
InvisibleCanvasGPad == Null

\* "return False": __exit__ does not suppress the exception
ExitReturn == FALSE

EnterScope(self) ==
    /\ ~exc
    /\ self \in refs /\ wrapped[self]
    /\ Len(stack) < MaxDepth
    /\ LET r == PadBaseCd(self, 0, gPad, registry, wrapped)
       IN  /\ prev' = [prev EXCEPT ![self] = gPad]
           /\ gPad' = r.gPad
           /\ wrapped' = r.wrapped
           /\ registry' = r.registry
           /\ stack' = Append([i \in 1..Len(stack) |->
                                  IF stack[i].surf = self
                                  THEN [stack[i] EXCEPT !.reentered = TRUE]
                                  ELSE stack[i]],
                               [surf |-> self, entry |-> gPad,
                                reentered |-> FALSE])
           /\ last' = [NoCall EXCEPT !.op = "enter", !.self = self,
                                     !.ret = self, !.entry = gPad]
    /\ UNCHANGED <<geomVars, canvVars, ioVars, axVars>>
    /\ UNCHANGED <<mother, canvasOf, drawn, exc, alive, refs, cdPairs>>

ExitRestore(self, gp, reg, w, pv) ==
    IF pv[self] # Null
    THEN LET r == DispatchCd(pv[self], 0, gp, reg, w)
         IN  [gPad |-> r.gPad, registry |-> r.registry, wrapped |-> r.wrapped]
    ELSE IF gp # Null
         THEN [gPad |-> InvisibleCanvasGPad, registry |-> reg, wrapped |-> w]
         ELSE [gPad |-> gp, registry |-> reg, wrapped |-> w]

\* Leaving the innermost open scope, normally or while an exception
\* propagates.
ExitScope ==
    /\ stack # <<>>
    /\ LET f == stack[Len(stack)]
           self == f.surf
           r == ExitRestore(self, gPad, registry, wrapped, prev)
       IN  /\ gPad' = r.gPad
           /\ registry' = r.registry
           /\ wrapped' = r.wrapped
           /\ prev' = [prev EXCEPT ![self] = Null]
           /\ exc' = (exc /\ ~ExitReturn)
           /\ stack' = SubSeq(stack, 1, Len(stack) - 1)
           /\ last' = [NoCall EXCEPT !.op = "exit", !.self = self,
                                     !.entry = f.entry, !.exc = exc,
                                     !.reentered = f.reentered]
    /\ UNCHANGED <<geomVars, canvVars, ioVars, axVars>>
    /\ UNCHANGED <<mother, canvasOf, drawn, alive, refs, cdPairs>>

\* The body of the innermost scope raises.
RaiseInBody ==
    /\ stack # <<>> /\ ~exc
    /\ exc' = TRUE
    /\ last' = [NoCall EXCEPT !.op = "raise"]
    /\ UNCHANGED <<geomVars, canvVars, ioVars, axVars>>
    /\ UNCHANGED <<gPad, mother, canvasOf, drawn, wrapped, registry, prev,
                   stack, alive, refs, cdPairs>>

\* The exception has left every scope and is handled by the caller.
CatchAtTop ==
    /\ stack = <<>> /\ exc
    /\ exc' = FALSE
    /\ last' = [NoCall EXCEPT !.op = "catch"]
    /\ UNCHANGED <<geomVars, canvVars, ioVars, axVars>>
    /\ UNCHANGED <<gPad, mother, canvasOf, drawn, wrapped, registry, prev,
                   stack, alive, refs, cdPairs>>

----------------------------------------------------------------------------
(* Object lifetime: python references and the keepalive registry *)

DropRef(x) ==
    /\ x \in refs
    /\ refs' = refs \ {x}
    /\ last' = [NoCall EXCEPT !.op = "drop", !.self = x]
    /\ UNCHANGED <<geomVars, canvVars, ioVars, axVars>>
    /\ UNCHANGED <<gPad, mother, canvasOf, drawn, wrapped, registry, prev,
                   stack, exc, alive, cdPairs>>

\* An edge pins its owned object while the owner exists.
Pinned(x) == \E o \in alive : <<o, x>> \in registry

\* The runtime destroys a python-made surface nothing refers to.  The
\* registry holds its owners weakly: the edges of a destroyed owner go.
Collect(x) ==
    /\ x \in alive /\ x \notin refs /\ x # DefCanvas
    /\ ~Pinned(x)
    /\ \A s \in alive : prev[s] # x
    /\ alive' = alive \ {x}
    /\ registry' = {e \in registry : e[1] # x /\ e[2] # x}
    /\ drawn' = [p \in Pads |-> IF p = x \/ mother[p] = x THEN FALSE
                                ELSE drawn[p]]
    /\ gPad' = IF gPad = Null THEN Null
               ELSE IF gPad = x
                    THEN IF x \in Pads /\ drawn[x] /\ mother[x] \in alive'
                         THEN mother[x] ELSE Null
                    ELSE IF GetCanvas(gPad) = x THEN Null ELSE gPad
    /\ last' = [NoCall EXCEPT !.op = "collect", !.self = x]
    /\ cdPairs' = {e \in cdPairs : e[1] # x}
    /\ UNCHANGED <<geomVars, canvVars, ioVars, axVars>>
    /\ UNCHANGED <<mother, canvasOf, wrapped, prev, stack, exc, refs>>

----------------------------------------------------------------------------
(* Pad.width_pixels / Pad.height_pixels *)

\* GetWNDC / GetHNDC of a surface; a canvas fills itself.
GetNDC(s, dim) ==
    IF s \in Canvases THEN Den
    ELSE IF dim = "w" THEN wndc[s] ELSE hndc[s]

\* Canvas.width / Canvas.height: GetWw() / GetWh()
CanvasSize(c, dim) == IF dim = "w" THEN Ww[c] ELSE Wh[c]

\* Variant: the width factor in both walks
WalkFactorWidth(m, dim) == GetNDC(m, "w")

\* "w *= mother.GetWNDC()" in width_pixels, "h *= mother.GetHNDC()" in
\* height_pixels
WalkFactor(m, dim) == GetNDC(m, dim)

\* int(x) of a non-negative fraction num/den
IntTrunc(num, den) == num \div den

NoWalk == [pc |-> "idle", dim |-> "w", self |-> Null, m |-> Null,
           canvas |-> Null, num |-> 0, den |-> 1, steps |-> 0, result |-> 0]

\* "mother = self.mother; canvas = self.canvas; w = self.GetWNDC()"
WalkStart(p, dim) ==
    /\ wk.pc # "loop"
    /\ p \in Pads /\ p \in refs /\ wrapped[p]
    /\ wk' = [pc |-> "loop", dim |-> dim, self |-> p, m |-> GetMother(p),
              canvas |-> GetCanvas(p), num |-> GetNDC(p, dim), den |-> Den,
              steps |-> 0, result |-> 0]
    /\ wrapped' = AsRootpyWrapped(AsRootpyWrapped(wrapped, GetMother(p)),
                                  GetCanvas(p))
    /\ UNCHANGED <<gPad, mother, canvasOf, drawn, registry, prev, stack, exc,
                   alive, refs, cdPairs, last>>
    /\ UNCHANGED <<wndc, hndc, canvVars, ioVars, axVars>>

\* One turn of "while mother is not canvas"
WalkStep ==
    /\ wk.pc = "loop" /\ wk.m # wk.canvas
    /\ wk' = [wk EXCEPT !.num = wk.num * WalkFactor(wk.m, wk.dim),
                        !.den = wk.den * Den,
                        !.m = GetMother(wk.m),
                        !.steps = wk.steps + 1]
    /\ wrapped' = AsRootpyWrapped(wrapped, GetMother(wk.m))
    /\ UNCHANGED <<gPad, mother, canvasOf, drawn, registry, prev, stack, exc,
                   alive, refs, cdPairs, last>>
    /\ UNCHANGED <<wndc, hndc, canvVars, ioVars, axVars>>

\* "return int(w * mother.width)": the loop has ended, mother is the canvas
WalkReturn ==
    /\ wk.pc = "loop" /\ wk.m = wk.canvas
    /\ wk' = [wk EXCEPT !.pc = "done",
                        !.result = IntTrunc(wk.num * CanvasSize(wk.m, wk.dim),
                                            wk.den)]
    /\ UNCHANGED <<surfVars, wndc, hndc, canvVars, ioVars, axVars>>

----------------------------------------------------------------------------
(* Canvas.__init__, Canvas.width and Canvas.height setters *)

\* TCanvas::SetCanvasSize: the paintable area becomes w x h.
SetCanvasSize(w, h) == <<w, h>>

\* TCanvas::SetWindowSize on a windowed canvas: the window, decorations
\* included, becomes w x h; the paintable area is what they leave.
SetWindowSize(w, h) == <<w - deco[1], h - deco[2]>>

\* Variant: no compensation for the decorations
CompensateNone(requested, got) == requested

\* "value + (value - self.GetWw())"
Compensate(requested, got) == requested + (requested - got)

\* The paintable size after Canvas(width, height, size_includes_decorations)
\* on a canvas the native constructor opened with a window of that size.
ConstructedSize(isBatch, width, height, incl) ==
    LET native == IF isBatch THEN SetCanvasSize(width, height)
                  ELSE SetWindowSize(width, height)
    IN  IF incl THEN native
        ELSE IF isBatch THEN SetCanvasSize(width, height)
        ELSE SetWindowSize(Compensate(width, native[1]),
                           Compensate(height, native[2]))

\* width.setter
WidthSetSize(c, value) ==
    IF batch[c] THEN SetCanvasSize(value, Wh[c])
    ELSE LET curr_height == Wh[c]
             first == SetWindowSize(value, curr_height)
         IN  IF ~sid[c]
             THEN SetWindowSize(Compensate(value, first[1]),
                                Compensate(curr_height, first[2]))
             ELSE first

\* height.setter
HeightSetSize(c, value) ==
    IF batch[c] THEN SetCanvasSize(Ww[c], value)
    ELSE LET curr_width == Ww[c]
             first == SetWindowSize(curr_width, value)
         IN  IF ~sid[c]
             THEN SetWindowSize(Compensate(curr_width, first[1]),
                                Compensate(value, first[2]))
             ELSE first

\* "canvas.width = value" (also "canvas.width_pixels = value")
SetWidth(c, value) ==
    /\ c \in refs /\ wrapped[c] /\ c \in Canvases
    /\ LET size == WidthSetSize(c, value)
       IN  /\ size[1] > 0 /\ size[2] > 0
           /\ Ww' = [Ww EXCEPT ![c] = size[1]]
           /\ Wh' = [Wh EXCEPT ![c] = size[2]]
    /\ last' = [NoCall EXCEPT !.op = "set_width", !.self = c, !.arg = value]
    /\ UNCHANGED <<gPad, mother, canvasOf, drawn, wrapped, registry, prev,
                   stack, exc, alive, refs, cdPairs>>
    /\ UNCHANGED <<batch, sid, deco, geomVars, ioVars, axVars>>

\* "canvas.height = value" (also "canvas.height_pixels = value")
SetHeight(c, value) ==
    /\ c \in refs /\ wrapped[c] /\ c \in Canvases
    /\ LET size == HeightSetSize(c, value)
       IN  /\ size[1] > 0 /\ size[2] > 0
           /\ Ww' = [Ww EXCEPT ![c] = size[1]]
           /\ Wh' = [Wh EXCEPT ![c] = size[2]]
    /\ last' = [NoCall EXCEPT !.op = "set_height", !.self = c, !.arg = value]
    /\ UNCHANGED <<gPad, mother, canvasOf, drawn, wrapped, registry, prev,
                   stack, exc, alive, refs, cdPairs>>
    /\ UNCHANGED <<batch, sid, deco, geomVars, ioVars, axVars>>

----------------------------------------------------------------------------
(* rootpy/io.py *)

Paths == {<<"a">>, <<"b">>, <<"a", "b">>}
Modes == {"", "UPDATE", "RECREATE"}
Names == {"h", "t", "x"}
\* Handles the caller keeps at a time.
MaxHandles == 2

NullHandle == [cls |-> "null", path |-> <<>>, via |-> ""]
NullEntity == [name |-> "", ncls |-> "null", rootpy |-> FALSE]

NoIo == [op |-> "none", path |-> <<>>, mode |-> "", natPath |-> <<>>,
         natMode |-> "", raised |-> "", msg |-> <<>>, ret |-> NullHandle,
         h |-> NullHandle, name |-> "", ent |-> NullEntity]

\* TFile::Open: a handle of the native class, or null when the container
\* cannot be opened; mode RECREATE makes the container.
NativeOpen(path, mode, fs) ==
    IF path \in fs \/ mode = "RECREATE"
    THEN [cls |-> "TFile", path |-> path, via |-> "open"]
    ELSE NullHandle

NativeOpenFiles(path, mode, fs) ==
    IF mode = "RECREATE" THEN fs \cup {path} ELSE fs

\* TFile::Get: every container holds a histogram "h" and a plain named
\* object "t"; any other name gives null.
NativeGet(h, name) ==
    IF name = "h" THEN [name |-> "h", ncls |-> "TH1F", rootpy |-> FALSE]
    ELSE IF name = "t" THEN [name |-> "t", ncls |-> "TNamed", rootpy |-> FALSE]
    ELSE NullEntity

\* asrootpy on a fetched object: histograms have a rootpy class, plain
\* named objects have none and come back as they are.
AsRootpy(e) == IF e.ncls = "TH1F" THEN [e EXCEPT !.rootpy = TRUE] ELSE e

\* Variant: the handle is never tested
OpenFailedNever(file) == FALSE

\* "if not file"
OpenFailed(file) == file = NullHandle

\* "No such file: '%s'" % filename
NoSuchFile(filename) == <<"No such file: '">> \o filename \o <<"'">>

\* open(filename, mode)
Open(filename, mode) ==
    /\ Cardinality(handles) < MaxHandles
    /\ LET file == NativeOpen(filename, mode, files)
       IN  /\ files' = NativeOpenFiles(filename, mode, files)
           /\ IF OpenFailed(file)
              THEN /\ io' = [NoIo EXCEPT !.op = "open", !.path = filename,
                                         !.mode = mode, !.natPath = filename,
                                         !.natMode = mode,
                                         !.raised = "IOError",
                                         !.msg = NoSuchFile(filename)]
                   /\ handles' = handles
              ELSE /\ io' = [NoIo EXCEPT !.op = "open", !.path = filename,
                                         !.mode = mode, !.natPath = filename,
                                         !.natMode = mode, !.ret = file]
                   /\ handles' = handles \cup {file}
    /\ UNCHANGED <<surfVars, geomVars, canvVars, axVars>>

\* File(filename): File.__init__ hands its arguments to the native
\* constructor; the handle is of the rootpy class.
FileInit(filename) ==
    /\ Cardinality(handles) < MaxHandles
    /\ filename \in files
    /\ handles' = handles \cup
                    {[cls |-> "File", path |-> filename, via |-> "File"]}
    /\ io' = [NoIo EXCEPT !.op = "File", !.path = filename,
                          !.natPath = filename,
                          !.ret = [cls |-> "File", path |-> filename,
                                   via |-> "File"]]
    /\ UNCHANGED <<files, surfVars, geomVars, canvVars, axVars>>

\* handle.Get(name) as python dispatches it: File.Get on a rootpy File,
\* the native Get on a native handle.
GetResult(h, name) ==
    IF h.cls = "File" THEN AsRootpy(NativeGet(h, name))
    ELSE NativeGet(h, name)

Get(h, name) ==
    /\ h \in handles
    /\ io' = [NoIo EXCEPT !.op = "get", !.h = h, !.name = name,
                          !.ent = GetResult(h, name)]
    /\ UNCHANGED <<files, handles, surfVars, geomVars, canvVars, axVars>>

\* The caller lets go of a handle.
DropHandle(h) ==
    /\ h \in handles
    /\ handles' = handles \ {h}
    /\ io' = [NoIo EXCEPT !.op = "drop", !.h = h]
    /\ UNCHANGED <<files, surfVars, geomVars, canvVars, axVars>>

----------------------------------------------------------------------------
(* _PadBase.axes *)

\* Largest ndim passed to axes().
MaxNdim == 4
\* Skeletons kept on the surface.
MaxHists == 2

NoLimits == <<>>
LimitChoices == {NoLimits, <<2, 5>>}

NoAxes == [op |-> "none", ndim |-> 0, raised |-> "", ret |-> <<>>]

\* the if / elif / elif chain; anything else raises ValueError
NdimValid(ndim) == ndim \in {1, 2, 3}

\* Variant: three axes only above two dimensions
ReturnsThreeAboveTwo(ndim) == ndim > 2

\* "if ndim > 1: return xaxis, yaxis, zaxis"
ReturnsThree(ndim) == ndim > 1

Range(lim) == IF lim = NoLimits THEN <<0, 1>> ELSE lim

\* Hist / Hist2D / Hist3D with one bin per axis over the given limits
MakeHist(ndim, xl, yl, zl) ==
    [dim |-> ndim,
     x |-> Range(xl),
     y |-> IF ndim >= 2 THEN Range(yl) ELSE NoLimits,
     z |-> IF ndim >= 3 THEN Range(zl) ELSE NoLimits]

\* The axis objects after the "limits" assignments
AxisOf(k, name, lim) == [hist |-> k, axis |-> name, limits |-> lim]

Axes(ndim, xl, yl, zl) ==
    /\ IF NdimValid(ndim)
       THEN /\ Len(hists) < MaxHists
            /\ LET k == Len(hists) + 1
                   xaxis == AxisOf(k, "x", xl)
                   yaxis == AxisOf(k, "y", yl)
                   zaxis == AxisOf(k, "z", zl)
               IN  /\ hists' = Append(hists, MakeHist(ndim, xl, yl, zl))
                   /\ axDrawn' = Append(axDrawn, k)
                   /\ ax' = [NoAxes EXCEPT
                               !.op = "axes", !.ndim = ndim,
                               !.ret = IF ReturnsThree(ndim)
                                       THEN <<xaxis, yaxis, zaxis>>
                                       ELSE <<xaxis, yaxis>>]
       ELSE /\ ax' = [NoAxes EXCEPT !.op = "axes", !.ndim = ndim,
                                    !.raised = "ValueError"]
            /\ UNCHANGED <<hists, axDrawn>>
    /\ UNCHANGED <<surfVars, geomVars, canvVars, ioVars>>

\* The surface is cleared of its skeletons.
ClearAxes ==
    /\ hists # <<>>
    /\ hists' = <<>> /\ axDrawn' = <<>>
    /\ ax' = [NoAxes EXCEPT !.op = "clear"]
    /\ UNCHANGED <<surfVars, geomVars, canvVars, ioVars>>

----------------------------------------------------------------------------
(* Specifications *)

SurfIdle ==
    /\ gPad = Null
    /\ mother = [p \in Pads |-> "c1"]
    /\ canvasOf = [p \in Pads |-> "c1"]
    /\ drawn = [p \in Pads |-> FALSE]
    /\ wrapped = [s \in Surf |-> s # DefCanvas]
    /\ registry = {}
    /\ prev = [s \in Surf |-> Null]
    /\ stack = <<>>
    /\ exc = FALSE
    /\ alive = {"c1"}
    /\ refs = {"c1"}
    /\ cdPairs = {}
    /\ last = NoCall

GeomIdle ==
    /\ wndc = [p \in Pads |-> Den]
    /\ hndc = [p \in Pads |-> Den]
    /\ wk = NoWalk

CanvIdle ==
    /\ Ww = [c \in Canvases |-> 20]
    /\ Wh = [c \in Canvases |-> 30]
    /\ batch = [c \in Canvases |-> TRUE]
    /\ sid = [c \in Canvases |-> FALSE]
    /\ deco = <<0, 0>>

IoIdle ==
    /\ files = {}
    /\ handles = {}
    /\ io = NoIo

AxIdle ==
    /\ hists = <<>>
    /\ axDrawn = <<>>
    /\ ax = NoAxes

\* A rootpy canvas c1 and two pads made while c1 was current, each pad of
\* the rootpy class or of the native one.
Init ==
    /\ gPad \in {Null, "c1"}
    /\ mother = [p \in Pads |-> "c1"]
    /\ canvasOf = [p \in Pads |-> "c1"]
    /\ drawn = [p \in Pads |-> FALSE]
    /\ wrapped \in {w \in [Surf -> BOOLEAN] : w["c1"] /\ ~w["c0"] /\ w["p3"]}
    /\ registry = {}
    /\ prev = [s \in Surf |-> Null]
    /\ stack = <<>>
    /\ exc = FALSE
    /\ alive = {"c1", "p1", "p2"}
    /\ refs = {"c1", "p1", "p2"}
    /\ cdPairs = {}
    /\ last = NoCall
    /\ GeomIdle /\ CanvIdle /\ IoIdle /\ AxIdle

\* Calls on surfaces while references are dropped and objects destroyed
Next ==
    \/ \E s \in Surf, n \in 0..MaxSub : CdCall(s, n)
    \/ \E p \in Pads, ok \in BOOLEAN : DrawCall(p, ok)
    \/ \E x \in Surf : DropRef(x)
    \/ \E x \in Surf : Collect(x)

Spec == Init /\ [][Next]_vars

\* One rootpy canvas and one rootpy pad exist.
InitScope ==
    /\ gPad \in {Null, "c1", "p1"}
    /\ mother = [p \in Pads |-> "c1"]
    /\ canvasOf = [p \in Pads |-> "c1"]
    /\ drawn = [p \in Pads |-> FALSE]
    /\ wrapped = [s \in Surf |-> s # DefCanvas]
    /\ registry = {}
    /\ prev = [s \in Surf |-> Null]
    /\ stack = <<>>
    /\ exc = FALSE
    /\ alive = {"c1", "p1"}
    /\ refs = {"c1", "p1"}
    /\ cdPairs = {}
    /\ last = NoCall
    /\ GeomIdle /\ CanvIdle /\ IoIdle /\ AxIdle

\* Nested with-scopes, with calls on surfaces in their bodies
NextScope ==
    \/ \E s \in Surf, n \in 0..MaxSub : CdCall(s, n)
    \/ \E p \in Pads, ok \in BOOLEAN : DrawCall(p, ok)
    \/ \E s \in Surf : EnterScope(s)
    \/ ExitScope
    \/ RaiseInBody
    \/ CatchAtTop

SpecScope == InitScope /\ [][NextScope]_vars

\* The mother of s, or s itself when s is a canvas, under mother map mo
Up(mo, s) == IF s \in Canvases THEN s ELSE mo[s]

\* Three drawn rootpy pads nested under canvas c1 in every possible way,
\* the canvas of each pad being the one its mother chain ends in.
InitGeom ==
    /\ gPad = "c1"
    /\ mother \in {mo \in [Pads -> {"c1"} \cup Pads] :
                     \A p \in Pads : Up(mo, Up(mo, Up(mo, p))) = "c1"}
    /\ canvasOf = [p \in Pads |-> "c1"]
    /\ drawn = [p \in Pads |-> TRUE]
    /\ wrapped = [s \in Surf |-> s # DefCanvas]
    /\ registry = {}
    /\ prev = [s \in Surf |-> Null]
    /\ stack = <<>>
    /\ exc = FALSE
    /\ alive = Surf \ {DefCanvas}
    /\ refs = Surf \ {DefCanvas}
    /\ cdPairs = {}
    /\ last = NoCall
    /\ wndc \in [Pads -> {2, 3}]
    /\ hndc \in [Pads -> {1, 3}]
    /\ wk = NoWalk
    /\ Ww \in [Canvases -> {10, 25}]
    /\ Wh = [c \in Canvases |-> 15]
    /\ batch = [c \in Canvases |-> TRUE]
    /\ sid = [c \in Canvases |-> FALSE]
    /\ deco = <<0, 0>>
    /\ IoIdle /\ AxIdle

NextGeom ==
    \/ \E p \in Pads, dim \in {"w", "h"} : WalkStart(p, dim)
    \/ WalkStep
    \/ WalkReturn

SpecGeom == InitGeom /\ [][NextGeom]_vars

\* Canvas c1 as its constructor leaves it, in batch or windowed mode, for
\* each requested size and each size_includes_decorations.
InitCanvas ==
    /\ SurfIdle /\ GeomIdle /\ IoIdle /\ AxIdle
    /\ deco \in {0, 2} \X {0, 3}
    /\ batch \in [Canvases -> BOOLEAN]
    /\ sid \in [Canvases -> BOOLEAN]
    /\ \E width \in {20, 30}, height \in {20, 30} :
         /\ Ww = [c \in Canvases |->
                    ConstructedSize(batch[c], width, height, sid[c])[1]]
         /\ Wh = [c \in Canvases |->
                    ConstructedSize(batch[c], width, height, sid[c])[2]]

NextCanvas ==
    \/ \E c \in Canvases, v \in {20, 30} : SetWidth(c, v)
    \/ \E c \in Canvases, v \in {20, 30} : SetHeight(c, v)

SpecCanvas == InitCanvas /\ [][NextCanvas]_vars

InitIO ==
    /\ SurfIdle /\ GeomIdle /\ CanvIdle /\ AxIdle
    /\ files \in SUBSET Paths
    /\ handles = {}
    /\ io = NoIo

NextIO ==
    \/ \E f \in Paths, m \in Modes : Open(f, m)
    \/ \E f \in Paths : FileInit(f)
    \/ \E h \in handles, n \in Names : Get(h, n)
    \/ \E h \in handles : DropHandle(h)

SpecIO == InitIO /\ [][NextIO]_vars

InitAxes == SurfIdle /\ GeomIdle /\ CanvIdle /\ IoIdle /\ AxIdle

NextAxes ==
    \/ \E ndim \in 0..MaxNdim, xl \in LimitChoices, yl \in LimitChoices,
          zl \in LimitChoices : Axes(ndim, xl, yl, zl)
    \/ ClearAxes

SpecAxes == InitAxes /\ [][NextAxes]_vars

----------------------------------------------------------------------------
(* Properties *)

\* C1: leaving a with-scope, normally or by an exception, leaves the
\* current surface as it was when the scope was entered (none included),
\* and an exception of the body keeps propagating.
C1_ScopeRestoresCurrent ==
    last.op = "exit" => (gPad = last.entry /\ exc = last.exc)

\* C10: after the outermost of several properly nested scopes is left, the
\* same surface possibly entered again inside its own scope, the current
\* surface is what it was before the outermost scope was entered.
C10_NestedScopesRestore ==
    (last.op = "exit" /\ stack = <<>>) => gPad = last.entry

\* C2: S.cd(n) returns the converted native result, and the registry gains
\* the edge <<S, result>> exactly when the result is a surface other than
\* S; it is left as it was when the result is S or null.
C2_CdRegistersOtherSurface ==
    [][last'.op = "cd" =>
         LET S == last'.self
             result == last'.ret
         IN  /\ result = NativeCd(S, last'.arg, gPad).ret
             /\ result # Null => wrapped'[result]
             /\ registry' = IF result # Null /\ result # S
                            THEN registry \cup {<<S, result>>}
                            ELSE registry]_vars

\* S.cd(n) has just returned a sub-pad, now of the rootpy class and owned
\* by S in the registry.
C2_Witness ==
    /\ last.op = "cd" /\ last.arg # 0
    /\ last.ret \in Pads /\ last.ret # last.self
    /\ wrapped[last.ret]
    /\ <<last.self, last.ret>> \in registry

\* C3 as stated: after cd() is called on a pad, some edge of the registry
\* with a living owner pins that pad.
C3_CdOnPadPinsIt ==
    (last.op = "cd" /\ last.self \in Pads) => Pinned(last.self)

\* C3 amended: a pad that S.cd(n) returned (a sub-pad of S, S being its
\* mother at that time) stays alive and pinned by the edge <<S, pad>> for
\* as long as S is alive, whatever references are dropped; cd() on the pad
\* itself returns the pad and adds no edge.
C3_ReturnedPadPinnedByOwner ==
    /\ \A e \in cdPairs :
         e[1] \in alive => (e[2] \in alive /\ e \in registry)
    /\ (last.op = "cd" /\ last.ret \notin {Null, last.self}) =>
         (mother[last.ret] = last.self /\ <<last.self, last.ret>> \in cdPairs)
    /\ (last.op = "cd" /\ last.ret = last.self) =>
         <<last.self, last.self>> \notin registry

\* A pad returned by S.cd(n) is alive with no python reference left to it
\* and no edge to it but <<S, pad>>.
C3_Witness ==
    \E e \in cdPairs :
        /\ e[1] \in alive /\ e[2] \in alive /\ e[2] \notin refs
        /\ {o \in alive : <<o, e[2]>> \in registry} = {e[1]}

\* C8: Pad.Draw, when the native draw returns, adds the edge <<the pad's
\* canvas after the draw, the pad>> and returns what the native draw
\* returned.
C8_DrawRegistersCanvasEdge ==
    [][(last'.op = "draw" /\ wrapped[last'.self]) =>
         LET p == last'.self
         IN  /\ registry' = registry \cup {<<canvasOf'[p], p>>}
             /\ last'.ret = NativeDraw(p, gPad, mother, canvasOf, drawn,
                                       alive).ret]_vars

\* A rootpy pad has just been drawn into another pad: its canvas, not its
\* mother, owns it.
C8_Witness ==
    /\ last.op = "draw" /\ wrapped[last.self]
    /\ mother[last.self] \in Pads
    /\ <<canvasOf[last.self], last.self>> \in registry
    /\ <<mother[last.self], last.self>> \notin registry

RECURSIVE ChainDepth(_)
\* Number of mother steps from s to its canvas
ChainDepth(s) == IF s \in Canvases THEN 0 ELSE 1 + ChainDepth(mother[s])

RECURSIVE ChainProduct(_, _)
\* Product of the normalized sizes (numerators, in units of 1/Den) of s
\* and of every pad between s and its canvas
ChainProduct(s, dim) ==
    IF s \in Canvases THEN 1
    ELSE (IF dim = "w" THEN wndc[s] ELSE hndc[s])
         * ChainProduct(mother[s], dim)

RECURSIVE Power(_, _)
Power(b, n) == IF n = 0 THEN 1 ELSE b * Power(b, n - 1)

\* C4: for a pad k >= 1 mother steps below its canvas, the walk of
\* width_pixels / height_pixels takes k - 1 mother steps and returns the
\* product of the normalized widths / heights of the pad and of every
\* intermediate mother, times the canvas's pixel width / height, truncated
\* to an integer.
C4_PixelsAreProductOfChain ==
    LET p == wk.self
        k == ChainDepth(p)
        size == IF wk.dim = "w" THEN Ww[canvasOf[p]] ELSE Wh[canvasOf[p]]
    IN  /\ wk.pc = "loop" => (k >= 1 /\ wk.steps <= k - 1)
        /\ wk.pc = "done" =>
             /\ wk.steps = k - 1
             /\ wk.result = (ChainProduct(p, wk.dim) * size) \div Power(Den, k)

\* height_pixels has returned for a pad three levels below its canvas, and
\* the truncation dropped a fractional part.
C4_Witness ==
    /\ wk.pc = "done" /\ wk.dim = "h"
    /\ ChainDepth(wk.self) = 3 /\ wk.steps = 2
    /\ wk.result > 0
    /\ wk.result * wk.den # wk.num * Wh[wk.canvas]

\* C5 as stated: on every canvas, batch or windowed, "canvas.width = v"
\* makes width_pixels v and leaves height_pixels alone, and
\* "canvas.height = v" makes height_pixels v and leaves width_pixels alone.
C5_SetterSetsPaintableSize ==
    [][LET c == last'.self
           v == last'.arg
       IN  /\ last'.op = "set_width" => (Ww'[c] = v /\ Wh'[c] = Wh[c])
           /\ last'.op = "set_height" => (Wh'[c] = v /\ Ww'[c] = Ww[c])]_vars

\* C5 amended: that holds on a batch canvas and on a windowed canvas whose
\* size_includes_decorations is false; on a windowed canvas whose
\* size_includes_decorations is true the window is given the size
\* (v, current paintable height), so width_pixels becomes v less the
\* decoration width and height_pixels loses the decoration height (and
\* symmetrically for the height setter).
C5_SetterSetsPaintableSizeUnlessDecorated ==
    [][LET c == last'.self
           v == last'.arg
           plain == batch[c] \/ ~sid[c]
       IN  /\ (last'.op = "set_width" /\ plain) =>
                 (Ww'[c] = v /\ Wh'[c] = Wh[c])
           /\ (last'.op = "set_height" /\ plain) =>
                 (Wh'[c] = v /\ Ww'[c] = Ww[c])
           /\ (last'.op = "set_width" /\ ~plain) =>
                 (Ww'[c] = v - deco[1] /\ Wh'[c] = Wh[c] - deco[2])
           /\ (last'.op = "set_height" /\ ~plain) =>
                 (Wh'[c] = v - deco[2] /\ Ww'[c] = Ww[c] - deco[1])]_vars

\* The width of a windowed canvas with real decorations, sized by its
\* paintable area, has just been set, to a value other than its height.
C5_Witness ==
    /\ last.op = "set_width"
    /\ ~batch[last.self] /\ ~sid[last.self]
    /\ deco[1] > 0 /\ deco[2] > 0
    /\ Ww[last.self] = last.arg /\ Wh[last.self] # last.arg

\* C6: Get on a handle that open() returned gives the conversion of the
\* natively fetched object: the rootpy object when the class has a
\* mapping, the raw one when it has none.
C6_GetOnOpenedHandleConverts ==
    (io.op = "get" /\ io.h.via = "open") =>
        io.ent = AsRootpy(NativeGet(io.h, io.name))

\* The sequence part occurs in whole
Contains(whole, part) ==
    \E i \in 1..Len(whole) :
        /\ i + Len(part) - 1 <= Len(whole)
        /\ SubSeq(whole, i, i + Len(part) - 1) = part

\* C9: open(path, mode) hands path and mode to the native open as they
\* are; it raises IOError with a message containing the path exactly when
\* the native open gives a null handle, and returns the native handle
\* otherwise.
C9_OpenRaisesIffNullHandle ==
    [][io'.op = "open" =>
         LET native == NativeOpen(io'.path, io'.mode, files)
         IN  /\ io'.natPath = io'.path /\ io'.natMode = io'.mode
             /\ files' = NativeOpenFiles(io'.path, io'.mode, files)
             /\ IF native = NullHandle
                THEN /\ io'.raised = "IOError"
                     /\ Contains(io'.msg, io'.path)
                     /\ io'.ret = NullHandle
                     /\ handles' = handles
                ELSE /\ io'.raised = ""
                     /\ io'.ret = native
                     /\ handles' = handles \cup {native}]_vars

\* open() has just failed on a two-character path that no container is at.
C9_Witness ==
    /\ io.op = "open" /\ io.raised = "IOError"
    /\ Len(io.path) = 2 /\ io.path \notin files
    /\ Contains(io.msg, io.path)

\* C7: axes(ndim) returns 2 distinct axis objects for ndim = 1 and 3 for
\* ndim = 2 or 3; for any other ndim it raises ValueError, returns nothing,
\* and has constructed no skeleton and drawn nothing.
C7_AxesCountOrInvalid ==
    [][ax'.op = "axes" =>
         LET n == ax'.ndim
             ret == ax'.ret
             distinct == Cardinality({ret[i] : i \in 1..Len(ret)}) = Len(ret)
         IN  /\ n = 1 => (ax'.raised = "" /\ Len(ret) = 2 /\ distinct)
             /\ n \in {2, 3} => (ax'.raised = "" /\ Len(ret) = 3 /\ distinct)
             /\ n \in {1, 2, 3} =>
                  (Len(hists') = Len(hists) + 1 /\ hists'[Len(hists')].dim = n
                   /\ axDrawn' = Append(axDrawn, Len(hists')))
             /\ n \notin {1, 2, 3} =>
                  (ax'.raised = "ValueError" /\ ret = <<>>
                   /\ hists' = hists /\ axDrawn' = axDrawn)]_vars

\* axes() has just failed for an ndim above 3 on a surface that an earlier
\* axes(ndim=2) drew on; that skeleton is still all there is.
C7_Witness ==
    /\ ax.op = "axes" /\ ax.ndim > 3 /\ ax.raised = "ValueError"
    /\ Len(hists) = 1 /\ hists[1].dim = 2 /\ axDrawn = <<1>>

\* What does hold of the code: a scope whose surface was not entered again
\* while it was open restores the current surface, on both exit paths.
ScopeRestoresUnlessReentered ==
    (last.op = "exit" /\ ~last.reentered) =>
        (gPad = last.entry /\ exc = last.exc)
====
